---- MODULE Spec2Model ----
(***************************************************************************)
(* ClimaZoneAI hybrid forecasting engine: the seasonal forecaster          *)
(* (models/prophet_model.py), the autoregressive forecaster                *)
(* (models/xgboost_model.py) and the ensemble combiner                     *)
(* (models/ensemble_model.py), as a state machine over one                 *)
(* EnsembleForecaster instance and its two sub-model instances.            *)
(*                                                                         *)
(* Numbers: floats are modelled as exact rationals <<num, den>> (den > 0,  *)
(* reduced); target values and covariates are integers on a fixed scale.   *)
(* The two fitted third-party models are black boxes: a fitted model is    *)
(* represented by what it was fitted on, and its prediction is a fixed     *)
(* deterministic function of the fit and of the query.                     *)
(***************************************************************************)
EXTENDS Integers, Sequences, FiniteSets, TLC

\* ------------------------------------------------------------------ bounds
\* largest forecast horizon / test window a caller asks for
MaxHorizon == 2
\* largest constructor weight a caller passes
MaxWeight == 2
\* longest of the short historical series
MaxShortLen == 10
\* number of target-value patterns beyond the constant one
MaxPattern == 1

\* ------------------------------------------------------- program constants
\* shift(7) / rolling(7): the weekly window
Window == 7
\* evaluate: minimum number of training rows left after the hold-out
MinTrainRows == 30

\* a missing value (NaN / NaT) in a numeric cell: cells hold rationals
NaN == <<>>

\* ---------------------------------------------------------------- rationals
Abs(x) == IF x < 0 THEN -x ELSE x

RECURSIVE GCD(_, _)
GCD(a, b) == IF b = 0 THEN Abs(a) ELSE GCD(b, a % b)

\* n/d as a reduced fraction with positive denominator (d # 0)
Rat(n, d) ==
    LET g == GCD(Abs(n), Abs(d))
        s == IF d < 0 THEN -1 ELSE 1
    IN  <<(s * n) \div g, (s * d) \div g>>

RInt(n) == <<n, 1>>
RAdd(a, b) == Rat(a[1] * b[2] + b[1] * a[2], a[2] * b[2])
RSub(a, b) == Rat(a[1] * b[2] - b[1] * a[2], a[2] * b[2])
RMul(a, b) == Rat(a[1] * b[1], a[2] * b[2])
RDiv(a, b) == Rat(a[1] * b[2], a[2] * b[1])
RLe(a, b) == a[1] * b[2] <= b[1] * a[2]
RMax(a, b) == IF RLe(a, b) THEN b ELSE a
RFloor(a) == a[1] \div a[2]

\* ----------------------------------------------------------------- calendar
\* dates are day ordinals, day 1 = 1 January of a non-leap year
MonthDays == <<31, 28, 31, 30, 31, 30, 31, 31, 30, 31, 30, 31>>

RECURSIVE MonthFrom(_, _)
MonthFrom(d, m) ==
    IF d <= MonthDays[m] THEN m
    ELSE MonthFrom(d - MonthDays[m], IF m = 12 THEN 1 ELSE m + 1)

\* Timestamp.month
Month(d) == MonthFrom(d, 1)

\* ------------------------------------------------------- sequence helpers
RECURSIVE SumSeq(_)
SumSeq(s) == IF s = <<>> THEN 0 ELSE Head(s) + SumSeq(Tail(s))

\* s[-k:] (pandas iloc / python slice): the last k elements, or all of s
LastK(s, k) ==
    IF Len(s) <= k THEN s ELSE SubSeq(s, Len(s) - k + 1, Len(s))

\* Series.mean / np.mean over integer values that are all present
Mean(s) == IF s = <<>> THEN NaN ELSE Rat(SumSeq(s), Len(s))

\* sum of squared deviations from the mean, times Len(s)^2 (kept integral)
SqDev(s) ==
    LET n == Len(s)
        t == SumSeq(s)
    IN  SumSeq([i \in 1..n |-> (n * s[i] - t) * (n * s[i] - t)])

\* a standard deviation is kept as <<"sqrt", n, d>>, the square root of the
\* variance n/d:
\* ddof = 1 for pandas Series.std, ddof = 0 for np.std
Std(s, ddof) ==
    IF Len(s) - ddof <= 0 THEN NaN
    ELSE LET v == Rat(SqDev(s), Len(s) * Len(s) * (Len(s) - ddof))
         IN  <<"sqrt", v[1], v[2]>>

\* ------------------------------------------------------------- data frames
\* A data frame is [cols: the set of its column names, rows: a sequence of
\* rows], a row being a function from the column names to values.
DATE == "date"
TARGET == "Renewable_Score"

\* the exogenous covariates XGBoostForecast looks for, in its order
WeatherCols ==
    <<"PRCP", "TAVG", "TMIN", "TMAX", "SNOW", "SNWD", "elevation">>

LagCols == <<"lag_1", "lag_7", "rolling_mean_7", "rolling_std_7">>

\* prepare_features: the candidate feature list
CandidateCols == WeatherCols \o LagCols

SeqToSet(s) == {s[i] : i \in 1..Len(s)}

Column(df, c) == [i \in 1..Len(df.rows) |-> df.rows[i][c]]

RECURSIVE InsertByDate(_, _)
InsertByDate(r, s) ==
    IF s = <<>> THEN <<r>>
    ELSE IF r[DATE] < Head(s)[DATE] THEN <<r>> \o s
    ELSE <<Head(s)>> \o InsertByDate(r, Tail(s))

RECURSIVE SortRows(_)
SortRows(s) ==
    IF s = <<>> THEN <<>>
    ELSE InsertByDate(s[Len(s)], SortRows(SubSeq(s, 1, Len(s) - 1)))

\* df.sort_values("date").copy(): a new frame, the argument is not touched
SortValuesByDate(df) == [cols |-> df.cols, rows |-> SortRows(df.rows)]

\* Series.shift(k): the value k rows earlier, missing for the first k rows
Shift(s, k) == [i \in 1..Len(s) |-> IF i > k THEN RInt(s[i - k]) ELSE NaN]

\* Series.rolling(k).mean(): over the k rows ending here, missing until
\* k rows exist
RollingMean(s, k) ==
    [i \in 1..Len(s) |-> IF i >= k THEN Mean(SubSeq(s, i - k + 1, i)) ELSE NaN]

\* Series.rolling(k).std()
RollingStd(s, k) ==
    [i \in 1..Len(s) |-> IF i >= k THEN Std(SubSeq(s, i - k + 1, i), 1) ELSE NaN]

\* df[c] = values: add (or replace) a column
WithColumn(df, c, vals) ==
    [cols |-> df.cols \cup {c},
     rows |-> [i \in 1..Len(df.rows) |->
                 [k \in df.cols \cup {c} |->
                     IF k = c THEN vals[i] ELSE df.rows[i][k]]]]

\* df.dropna(subset=cols)
DropNa(df, subset) ==
    [cols |-> df.cols,
     rows |-> SelectSeq(df.rows, LAMBDA r : \A c \in SeqToSet(subset) : r[c] # NaN)]

\* df[cols]: the listed columns, in the listed order
Project(df, cols) ==
    [cols |-> cols,
     rows |-> [i \in 1..Len(df.rows) |-> [c \in SeqToSet(cols) |-> df.rows[i][c]]]]

\* ------------------------------------------ XGBoostForecast.prepare_features
\* the columns whose missing values drop a row
DropSubsetLag1Only == <<"lag_1">>

DropSubset == <<"lag_1", "lag_7", "rolling_mean_7">>

WithLagFeatures(df) ==
    LET y  == Column(df, TARGET)
        d1 == WithColumn(df, "lag_1", Shift(y, 1))
        d2 == WithColumn(d1, "lag_7", Shift(y, Window))
        d3 == WithColumn(d2, "rolling_mean_7", RollingMean(y, Window))
    IN  WithColumn(d3, "rolling_std_7", RollingStd(y, Window))

\* the candidate columns the frame has, in the candidate order
FeatureCols(cols) == SelectSeq(CandidateCols, LAMBDA c : c \in cols)

\* X = df[feature_cols], y = df["Renewable_Score"]
SelectFeatures(df) ==
    [X |-> Project(df, FeatureCols(df.cols)), y |-> Column(df, TARGET)]

\* returns [X |-> feature matrix (ordered columns), y |-> target vector]
prepare_features(df0) ==
    SelectFeatures(DropNa(WithLagFeatures(SortValuesByDate(df0)), DropSubset))

\* ------------------------------------------------ the caller's input series
\* target values are integers 0..Scale, standing for the scores 0/Scale..1
Scale == 4
\* ordinal of the first observation of every series (21 January)
StartDay == 21
\* length of the one series long enough to be evaluated
LongLen == 31

TargetVal(p, i) == IF p = 0 THEN Scale \div 2 ELSE (p * i * i + i) % (Scale + 1)

CovIndex(c) == CHOOSE k \in 1..Len(WeatherCols) : WeatherCols[k] = c

CovVal(c, i) == (i * CovIndex(c)) % 3

\* n daily observations from StartDay on, with the covariate columns `covs`
MkSeries(n, p, covs) ==
    [cols |-> {DATE, TARGET} \cup covs,
     rows |-> [i \in 1..n |->
                 [c \in {DATE, TARGET} \cup covs |->
                     IF c = DATE THEN StartDay + i - 1
                     ELSE IF c = TARGET THEN TargetVal(p, i)
                     ELSE CovVal(c, i)]]]

AllCovs == SeqToSet(WeatherCols)
SomeCovs == {"PRCP", "TAVG"}

\* valid HistoricalSeries (sorted, unique dates): one of every short length
\* with all covariates, the longest short one also with each target pattern
\* and with some or no covariates, and one long series
SeriesPool ==
    {MkSeries(n, 1, AllCovs) : n \in (Window .. MaxShortLen) \cup {LongLen}}
    \cup {MkSeries(MaxShortLen, p, AllCovs) : p \in 0..MaxPattern}
    \cup {MkSeries(MaxShortLen, 1, c) : c \in {SomeCovs, {}}}

Horizons == 0..MaxHorizon

\* ------------------------------------------------------ call results
\* what a call gives back to its caller: err = "none" and a value, or the
\* exception it raised (and then no value)
Ok(v) == [err |-> "none", val |-> v]
Raise(e) == [err |-> e, val |-> <<>>]

\* --------------------------------------------------- the seasonal model
\* ProphetForecast.__init__: a Prophet object that has no history yet
ProphetNew == [trained |-> FALSE, history |-> <<>>]

\* df.rename(columns={"date": "ds", "Renewable_Score": "y"}): a new frame
RenameForProphet(df) ==
    [i \in 1..Len(df.rows) |-> [ds |-> df.rows[i][DATE], y |-> df.rows[i][TARGET]]]

\* Prophet.fit (library): a Prophet object can be fitted once only, and needs
\* two rows; gives [err, model]
ProphetFit(model, model_df) ==
    IF model.trained THEN [err |-> "Exception", model |-> model]
    ELSE IF Len(model_df) < 2 THEN [err |-> "ValueError", model |-> model]
    ELSE [err |-> "none", model |-> [trained |-> TRUE, history |-> model_df]]

\* ProphetForecast.train
ProphetTrain(model, df) == ProphetFit(model, RenameForProphet(df))

\* Prophet.make_future_dataframe(periods) (library, include_history=True):
\* the history's dates followed by `periods` further days
MakeFutureDataframe(model, periods) ==
    LET h == model.history
        last_date == h[Len(h)].ds
    IN  [i \in 1..Len(h) |-> h[i].ds] \o [i \in 1..periods |-> last_date + i]

\* Prophet.predict (library): yhat for a date, a black box fixed by the fit
\* (through `level`, the sum of the fitted targets)
ProphetYhat(level, d) == (level + d) % (Scale + 1)

ProphetLevel(model) ==
    SumSeq([i \in 1..Len(model.history) |-> model.history[i].y])

\* model.predict(future)[["ds", "yhat"]] renamed to date, forecast
ProphetFrame(future, level) ==
    [cols |-> {"date", "forecast"},
     rows |-> [i \in 1..Len(future) |->
                 [date |-> future[i], forecast |-> ProphetYhat(level, future[i])]]]

\* ProphetForecast.predict(days_ahead), called with the keyword arguments
\* `kwargs` besides days_ahead: the signature takes none
ProphetPredict(model, days_ahead, kwargs) ==
    IF kwargs # {} THEN Raise("TypeError")
    ELSE IF ~model.trained THEN Raise("Exception")
    ELSE Ok(ProphetFrame(MakeFutureDataframe(model, days_ahead), ProphetLevel(model)))

\* ----------------------------------------------- the autoregressive model
\* XGBoostForecast.__init__: an unfitted regressor
XGBNew == [trained |-> FALSE, feature_names_in |-> <<>>, X_fit |-> <<>>, y_fit |-> <<>>]

\* the row order train_test_split(random_state=42) draws for n rows: a fixed
\* permutation of 1..n (here the reversal stands for the seeded shuffle)
ShufflePerm(n) == [j \in 1..n |-> n + 1 - j]

\* train_test_split(X, y, test_size=0.2, random_state=42) (library):
\* ceil(0.2 n) test rows, the other rows train; an empty train set is refused
TrainTestSplit(X, y) ==
    LET n == Len(X.rows)
        n_test == (n + 4) \div 5
        n_train == n - n_test
        perm == ShufflePerm(n)
    IN  IF n_train <= 0 THEN Raise("ValueError")
        ELSE Ok([X_val   |-> [j \in 1..n_test |-> X.rows[perm[j]]],
                 y_val   |-> [j \in 1..n_test |-> y[perm[j]]],
                 X_train |-> [j \in 1..n_train |-> X.rows[perm[n_test + j]]],
                 y_train |-> [j \in 1..n_train |-> y[perm[n_test + j]]]])

\* XGBRegressor.fit (library): the fit replaces whatever was fitted before
XGBFit(model, cols, X_train, y_train) ==
    [trained |-> TRUE, feature_names_in |-> cols, X_fit |-> X_train, y_fit |-> y_train]

\* train that refits on the full data after the validation
FitOnAll(model, cols, split) ==
    IF split.err # "none" THEN [err |-> split.err, model |-> model]
    ELSE [err |-> "none",
          model |-> XGBFit(model, cols, split.val.X_train \o split.val.X_val,
                           split.val.y_train \o split.val.y_val)]

\* train, after the split: fit on the train part only; gives [err, model]
FitOnSplit(model, cols, split) ==
    IF split.err # "none" THEN [err |-> split.err, model |-> model]
    ELSE [err |-> "none",
          model |-> XGBFit(model, cols, split.val.X_train, split.val.y_train)]

TrainOnFeatures(model, fe) ==
    FitOnSplit(model, fe.X.cols, TrainTestSplit(fe.X, fe.y))

\* XGBoostForecast.train; gives [err, model]
XGBTrain(model, df) == TrainOnFeatures(model, prepare_features(df))

\* XGBRegressor.predict (library) on one row [cols, vals]: refuses an unfitted
\* model and a row whose columns are not the fitted ones; the value is a
\* black box fixed by the fit and the row
XGBPredictRow(model, row) ==
    IF ~model.trained THEN Raise("NotFittedError")
    ELSE IF row.cols # model.feature_names_in THEN Raise("ValueError")
    ELSE Ok((SumSeq(model.y_fit) + RFloor(row.vals["lag_1"])
               + RFloor(row.vals["rolling_mean_7"]) + Len(row.cols)) % (Scale + 1))

\* XGBRegressor.feature_importances_ (library): a black box fixed by the fit
Importance(model, f) ==
    LET k == CHOOSE j \in 1..Len(CandidateCols) : CandidateCols[j] = f
    IN  (k * k + SumSeq(model.y_fit)) % 5

RECURSIVE InsertInt(_, _)
InsertInt(x, s) ==
    IF s = <<>> THEN <<x>>
    ELSE IF x < Head(s) THEN <<x>> \o s
    ELSE <<Head(s)>> \o InsertInt(x, Tail(s))

RECURSIVE SortInts(_)
SortInts(s) == IF s = <<>> THEN <<>> ELSE InsertInt(Head(s), SortInts(Tail(s)))

\* Series.median
Median(s) ==
    LET t == SortInts(s)
        n == Len(t)
    IN  IF n = 0 THEN NaN
        ELSE IF n % 2 = 1 THEN RInt(t[(n + 1) \div 2])
        ELSE Rat(t[n \div 2] + t[n \div 2 + 1], 2)

\* pd.DataFrame(list of {date, forecast} dicts): no dicts, no columns
ForecastFrame(list) ==
    [cols |-> IF list = <<>> THEN {} ELSE {"date", "forecast"}, rows |-> list]

\* predict_future, the covariates of one step: the same-month medians of the
\* covariates the series has, or else the last row's seven covariates
WeatherFrom(df, same_month_data, present) ==
        IF same_month_data # <<>>
        THEN [err |-> "none", cols |-> present,
              vals |-> [c \in SeqToSet(present) |->
                          Median([i \in 1..Len(same_month_data) |-> same_month_data[i][c]])]]
        ELSE IF df.rows = <<>>
        THEN [err |-> "IndexError", cols |-> <<>>, vals |-> <<>>]
        ELSE IF ~(AllCovs \subseteq df.cols)
        THEN [err |-> "KeyError", cols |-> <<>>, vals |-> <<>>]
        ELSE [err |-> "none", cols |-> WeatherCols,
              vals |-> [c \in AllCovs |-> RInt(df.rows[Len(df.rows)][c])]]

SameMonth(df, m) == SelectSeq(df.rows, LAMBDA r : Month(r[DATE]) = m)

WeatherFeatures(df, next_date) ==
    WeatherFrom(df, SameMonth(df, Month(next_date)),
                SelectSeq(WeatherCols, LAMBDA c : c \in df.cols))

\* lag features whose lag_1 stays the last historical target at every step
LagsFromHistoryOnly(hist, i, made, recent_forecasts) ==
        [lag_1 |-> RInt(hist[Len(hist)]),
         lag_7 |-> IF i > 0 /\ Len(recent_forecasts) >= Window
                   THEN Mean(recent_forecasts) ELSE Mean(hist),
         rolling_mean_7 |-> IF i > 0 /\ recent_forecasts # <<>>
                            THEN Mean(recent_forecasts) ELSE Mean(hist),
         rolling_std_7 |-> IF i > 0 /\ Len(recent_forecasts) > 1
                           THEN Std(recent_forecasts, 0) ELSE Std(hist, 1)]

\* predict_future, the lag features of step i (0-based) given the last
\* historical targets and the last forecast values made so far
LagsFrom(hist, i, made, recent_forecasts) ==
        IF i = 0
        THEN [lag_1 |-> RInt(hist[Len(hist)]),
              lag_7 |-> Mean(hist),
              rolling_mean_7 |-> Mean(hist),
              rolling_std_7 |-> Std(hist, 1)]
        ELSE [lag_1 |-> RInt(made[Len(made)]),
              lag_7 |-> IF Len(recent_forecasts) >= Window
                        THEN Mean(recent_forecasts) ELSE Mean(hist),
              rolling_mean_7 |-> IF recent_forecasts # <<>>
                                 THEN Mean(recent_forecasts) ELSE Mean(hist),
              rolling_std_7 |-> IF Len(recent_forecasts) > 1
                                THEN Std(recent_forecasts, 0) ELSE Std(hist, 1)]

LagFeatures(df, i, made) ==
    LagsFrom(LastK(Column(df, TARGET), Window), i, made, LastK(made, Window))

\* the feature row of one step: {**weather_features, lag_1, ...}
FeatureRow(w, lags) ==
    [cols |-> w.cols \o LagCols,
     vals |-> [c \in SeqToSet(w.cols \o LagCols) |->
                 IF c \in SeqToSet(LagCols) THEN lags[c] ELSE w.vals[c]]]

ForecastValues(forecasts) == [j \in 1..Len(forecasts) |-> forecasts[j].forecast]

\* one step of the loop: the feature row of `next_date`, or the error
\* raised while building it
StepRow(df, i, forecasts, next_date, w) ==
    IF w.err # "none" THEN [err |-> w.err, X_next |-> <<>>]
    ELSE [err |-> "none",
          X_next |-> FeatureRow(w, LagFeatures(df, i, ForecastValues(forecasts)))]

NextDate(df, i) ==
    IF df.rows = <<>> THEN 0 ELSE df.rows[Len(df.rows)][DATE] + (i + 1)

\* the loop of predict_future from step i on; gives [err, val, steps] where
\* steps lists the feature rows built (not returned to the caller)
RECURSIVE PredictLoop(_, _, _, _, _, _)
RECURSIVE PredictStep(_, _, _, _, _, _, _, _)
RECURSIVE PredictAppend(_, _, _, _, _, _, _, _, _)
PredictLoop(model, df, days_ahead, i, forecasts, steps) ==
    IF i >= days_ahead
    THEN [err |-> "none", val |-> ForecastFrame(forecasts), steps |-> steps]
    ELSE PredictStep(model, df, days_ahead, i, forecasts, steps, NextDate(df, i),
                     StepRow(df, i, forecasts, NextDate(df, i),
                             WeatherFeatures(df, NextDate(df, i))))

PredictStep(model, df, days_ahead, i, forecasts, steps, next_date, row) ==
    IF row.err # "none"
    THEN [err |-> row.err, val |-> <<>>, steps |-> steps]
    ELSE PredictAppend(model, df, days_ahead, i, forecasts, steps, next_date,
                       row.X_next, XGBPredictRow(model, row.X_next))

PredictAppend(model, df, days_ahead, i, forecasts, steps, next_date, X_next, y_pred) ==
    IF y_pred.err # "none"
    THEN [err |-> y_pred.err, val |-> <<>>, steps |-> steps]
    ELSE PredictLoop(model, df, days_ahead, i + 1,
                     Append(forecasts, [date |-> next_date, forecast |-> y_pred.val]),
                     Append(steps, X_next))

\* XGBoostForecast.predict_future
predict_future(model, df, days_ahead) ==
    PredictLoop(model, SortValuesByDate(df), days_ahead, 0, <<>>, <<>>)

RECURSIVE InsertByImportance(_, _)
InsertByImportance(r, s) ==
    IF s = <<>> THEN <<r>>
    ELSE IF r.importance > Head(s).importance THEN <<r>> \o s
    ELSE <<Head(s)>> \o InsertByImportance(r, Tail(s))

RECURSIVE InsertByImportanceAsc(_, _)
InsertByImportanceAsc(r, s) ==
    IF s = <<>> THEN <<r>>
    ELSE IF r.importance < Head(s).importance THEN <<r>> \o s
    ELSE <<Head(s)>> \o InsertByImportanceAsc(r, Tail(s))

RECURSIVE SortByImportanceAsc(_)
SortByImportanceAsc(s) ==
    IF s = <<>> THEN <<>>
    ELSE InsertByImportanceAsc(s[Len(s)], SortByImportanceAsc(SubSeq(s, 1, Len(s) - 1)))

\* DataFrame.sort_values('importance', ascending=False)
RECURSIVE SortByImportance(_)
SortByImportance(s) ==
    IF s = <<>> THEN <<>>
    ELSE InsertByImportance(s[Len(s)], SortByImportance(SubSeq(s, 1, Len(s) - 1)))

\* XGBoostForecast.get_feature_importance: None (is_none) for an unfitted
\* model, else the {feature, importance} rows, most important first
get_feature_importance(model) ==
    IF ~model.trained
    THEN Ok([is_none |-> TRUE, rows |-> <<>>])
    ELSE Ok([is_none |-> FALSE,
             rows |-> SortByImportance(
                 [j \in 1..Len(model.feature_names_in) |->
                     [feature |-> model.feature_names_in[j],
                      importance |-> Importance(model, model.feature_names_in[j])]])])

\* --------------------------------------------------------- the ensemble
\* EnsembleForecaster.__init__, the weight normalisation: [err, pw, xw]
NormalizeXgbKept(prophet_weight, xgb_weight) ==
    LET total == prophet_weight + xgb_weight
    IN  IF total = 0 THEN [err |-> "ZeroDivisionError", pw |-> NaN, xw |-> NaN]
        ELSE [err |-> "none", pw |-> Rat(prophet_weight, total), xw |-> RInt(xgb_weight)]

NormalizeWeights(prophet_weight, xgb_weight) ==
    LET total == prophet_weight + xgb_weight
    IN  IF total = 0 THEN [err |-> "ZeroDivisionError", pw |-> NaN, xw |-> NaN]
        ELSE [err |-> "none",
              pw |-> Rat(prophet_weight, total),
              xw |-> Rat(xgb_weight, total)]

\* the keyword arguments EnsembleForecaster passes to ProphetForecast.predict,
\* as <<name, value>> pairs
EnsembleProphetKwargs == {<<"include_uncertainty", FALSE>>}

\* the keyword arguments generate_forecasts passes to ProphetForecast.predict
AppProphetKwargs == {<<"include_uncertainty", TRUE>>}

\* the positions of the left rows whose date some right row has
MatchedLeft(left, right) ==
    SelectSeq([i \in 1..Len(left.rows) |-> i],
              LAMBDA i : \E j \in 1..Len(right.rows) :
                            right.rows[j].date = left.rows[i].date)

RightMatch(right, d) == CHOOSE j \in 1..Len(right.rows) : right.rows[j].date = d

JoinRows(left, right, idx) ==
    [k \in 1..Len(idx) |->
        [date |-> left.rows[idx[k]].date,
         forecast_prophet |-> left.rows[idx[k]].forecast,
         forecast_xgb |-> right.rows[RightMatch(right, left.rows[idx[k]].date)].forecast]]

\* pd.merge(left, right, on="date", suffixes=("_prophet", "_xgb")): the inner
\* join on equal dates, in the left frame's order
MergeOnDate(left, right) ==
    IF ~("date" \in left.cols /\ "date" \in right.cols) THEN Raise("KeyError")
    ELSE Ok(JoinRows(left, right, MatchedLeft(left, right)))

\* predict, after the seasonal forecast: the autoregressive forecast, then
\* the merge
MergeWithXgb(prophet_forecast, xgb_forecast) ==
    IF xgb_forecast.err # "none" THEN Raise(xgb_forecast.err)
    ELSE MergeOnDate(prophet_forecast.val, xgb_forecast.val)

\* a forecast built from the autoregressive model alone
XgbOnly(x) ==
    IF x.err # "none" THEN Raise(x.err)
    ELSE Ok([k \in 1..Len(x.val.rows) |->
               [date |-> x.val.rows[k].date,
                forecast_prophet |-> x.val.rows[k].forecast,
                forecast_xgb |-> x.val.rows[k].forecast]])

\* predict that falls back to the autoregressive forecast when the seasonal
\* call raises
AfterProphetFallback(prophet_forecast, xgb_m, df, days_ahead) ==
    IF prophet_forecast.err # "none"
    THEN XgbOnly(predict_future(xgb_m, df, days_ahead))
    ELSE MergeWithXgb(prophet_forecast, predict_future(xgb_m, df, days_ahead))

\* the seasonal call comes first, and its exception ends the request
AfterProphet(prophet_forecast, xgb_m, df, days_ahead) ==
    IF prophet_forecast.err # "none" THEN Raise(prophet_forecast.err)
    ELSE MergeWithXgb(prophet_forecast, predict_future(xgb_m, df, days_ahead))

\* the two sub-model forecasts of predict / adaptive_predict, merged
SubForecasts(prophet_m, xgb_m, df, days_ahead) ==
    AfterProphet(ProphetPredict(prophet_m, days_ahead, EnsembleProphetKwargs),
                 xgb_m, df, days_ahead)

Weighted(wp, fp, wx, fx) == RAdd(RMul(wp, RInt(fp)), RMul(wx, RInt(fx)))

\* ensemble["forecast"] = prophet_weight * forecast_prophet + xgb_weight * forecast_xgb
CombineStatic(e, m) ==
    IF m.err # "none" THEN m
    ELSE Ok([k \in 1..Len(m.val) |->
               [date |-> m.val[k].date,
                forecast |-> Weighted(e.prophet_weight, m.val[k].forecast_prophet,
                                      e.xgb_weight, m.val[k].forecast_xgb),
                forecast_prophet |-> m.val[k].forecast_prophet,
                forecast_xgb |-> m.val[k].forecast_xgb]])

\* EnsembleForecaster.predict
EnsemblePredictOp(e, prophet_m, xgb_m, df, days_ahead) ==
    CombineStatic(e, SubForecasts(prophet_m, xgb_m, df, days_ahead))

AdaptiveXgbWeightZeroBased(days_out, days_ahead) ==
    RMax(Rat(3, 10), RSub(Rat(8, 10), RMul(Rat(days_out - 1, days_ahead), Rat(5, 10))))

\* adaptive_predict: np.maximum(0.3, 0.8 - (days_out / days_ahead) * 0.5)
AdaptiveXgbWeight(days_out, days_ahead) ==
    RMax(Rat(3, 10), RSub(Rat(8, 10), RMul(Rat(days_out, days_ahead), Rat(5, 10))))

\* adaptive_prophet_weight = 1 - adaptive_xgb_weight
AdaptiveProphetWeight(days_out, days_ahead) ==
    RSub(RInt(1), AdaptiveXgbWeight(days_out, days_ahead))

\* days_out = 1..len(ensemble), and the weighted sum per row
CombineAdaptive(m, days_ahead) ==
    IF m.err # "none" THEN m
    ELSE Ok([k \in 1..Len(m.val) |->
               [date |-> m.val[k].date,
                forecast |-> Weighted(AdaptiveProphetWeight(k, days_ahead),
                                      m.val[k].forecast_prophet,
                                      AdaptiveXgbWeight(k, days_ahead),
                                      m.val[k].forecast_xgb),
                forecast_prophet |-> m.val[k].forecast_prophet,
                forecast_xgb |-> m.val[k].forecast_xgb]])

\* EnsembleForecaster.adaptive_predict
AdaptivePredictOp(prophet_m, xgb_m, df, days_ahead) ==
    CombineAdaptive(SubForecasts(prophet_m, xgb_m, df, days_ahead), days_ahead)

\* train that undoes the seasonal training when the autoregressive one raises
TrainSecondRollback(prophet_m, xgb_m, p, x) ==
    IF x.err # "none"
    THEN [err |-> x.err, prophet |-> prophet_m, xgboost |-> xgb_m]
    ELSE [err |-> "none", prophet |-> p.model, xgboost |-> x.model]

\* train, the second half: the autoregressive model, trained only when the
\* seasonal training `p` has not raised
TrainSecond(prophet_m, xgb_m, p, x) ==
    IF x.err # "none"
    THEN [err |-> x.err, prophet |-> p.model, xgboost |-> xgb_m]
    ELSE [err |-> "none", prophet |-> p.model, xgboost |-> x.model]

TrainFirst(prophet_m, xgb_m, df, p) ==
    IF p.err # "none"
    THEN [err |-> p.err, prophet |-> prophet_m, xgboost |-> xgb_m]
    ELSE TrainSecond(prophet_m, xgb_m, p, XGBTrain(xgb_m, df))

\* EnsembleForecaster.train: the seasonal model first, then the
\* autoregressive one; gives [err, prophet, xgboost]
EnsembleTrainOp(prophet_m, xgb_m, df) ==
    TrainFirst(prophet_m, xgb_m, df, ProphetTrain(prophet_m, df))

\* df.iloc[:-k]: python reads -0 as 0, so k = 0 keeps no row
ILocHead(df, k) ==
    [cols |-> df.cols,
     rows |-> IF k = 0 THEN <<>> ELSE SubSeq(df.rows, 1, Len(df.rows) - k)]

\* df.iloc[-k:]: k = 0 keeps every row
ILocTail(df, k) ==
    [cols |-> df.cols,
     rows |-> IF k = 0 THEN df.rows ELSE LastK(df.rows, k)]

RECURSIVE RSum(_)
RSum(q) == IF q = <<>> THEN RInt(0) ELSE RAdd(Head(q), RSum(Tail(q)))

RAbs(a) == <<Abs(a[1]), a[2]>>

\* evaluate, calc_metrics: the squared and absolute errors of one variant,
\* summed (RMSE and MAE are fixed by them and the row count); sklearn refuses
\* vectors of different lengths
CalcMetrics(y_true, y_pred, model_name) ==
    IF Len(y_true) # Len(y_pred) THEN Raise("ValueError")
    ELSE Ok([Model |-> model_name, n |-> Len(y_true),
             sum_sq |-> RSum([i \in 1..Len(y_true) |->
                                RMul(RSub(RInt(y_true[i]), y_pred[i]),
                                     RSub(RInt(y_true[i]), y_pred[i]))]),
             sum_abs |-> RSum([i \in 1..Len(y_true) |->
                                RAbs(RSub(RInt(y_true[i]), y_pred[i]))])])

PredColumn(rows, c) == [k \in 1..Len(rows) |-> rows[k][c]]

PredColumnR(rows, c) == [k \in 1..Len(rows) |-> RInt(rows[k][c])]

EvalResult(err, val, t) ==
    [err |-> err, val |-> val, prophet |-> t.prophet, xgboost |-> t.xgboost]

\* evaluate, the three rows of the report
Report(t, r1, r2, r3) ==
    IF r1.err # "none" THEN EvalResult(r1.err, <<>>, t)
    ELSE EvalResult("none", [is_none |-> FALSE, rows |-> <<r1.val, r2.val, r3.val>>], t)

\* evaluate, after the predictions: the metrics against the held-out targets
Score(t, predictions, actual) ==
    IF predictions.err # "none" THEN EvalResult(predictions.err, <<>>, t)
    ELSE Report(t,
                CalcMetrics(actual, PredColumn(predictions.val, "forecast"), "Ensemble"),
                CalcMetrics(actual, PredColumnR(predictions.val, "forecast_prophet"), "Prophet"),
                CalcMetrics(actual, PredColumnR(predictions.val, "forecast_xgb"), "XGBoost"))

\* evaluate, after self.train(train_df)
EvaluateTrained(e, t, train_df, test_df, test_days) ==
    IF t.err # "none" THEN EvalResult(t.err, <<>>, t)
    ELSE Score(t, EnsemblePredictOp(e, t.prophet, t.xgboost, train_df, test_days),
               Column(test_df, TARGET))

\* evaluate that trains copies of the sub-models and leaves its own as they were
EvaluateSplitOnCopies(e, prophet_m, xgb_m, train_df, test_df, test_days) ==
    [EvaluateTrained(e, EnsembleTrainOp(prophet_m, xgb_m, train_df),
                     train_df, test_df, test_days)
        EXCEPT !.prophet = prophet_m, !.xgboost = xgb_m]

EvaluateSplit(e, prophet_m, xgb_m, train_df, test_df, test_days) ==
    EvaluateTrained(e, EnsembleTrainOp(prophet_m, xgb_m, train_df),
                    train_df, test_df, test_days)

\* evaluate whose guard forgets test_days
EvaluateOpFloorOnly(e, prophet_m, xgb_m, df, test_days) ==
    IF Len(df.rows) < MinTrainRows
    THEN [err |-> "none", val |-> [is_none |-> TRUE, rows |-> <<>>],
          prophet |-> prophet_m, xgboost |-> xgb_m]
    ELSE EvaluateSplit(e, prophet_m, xgb_m, ILocHead(df, test_days),
                       ILocTail(df, test_days), test_days)

\* EnsembleForecaster.evaluate; gives [err, val, prophet, xgboost] with
\* val = [is_none, rows]
EvaluateOp(e, prophet_m, xgb_m, df, test_days) ==
    IF Len(df.rows) < test_days + MinTrainRows
    THEN [err |-> "none", val |-> [is_none |-> TRUE, rows |-> <<>>],
          prophet |-> prophet_m, xgboost |-> xgb_m]
    ELSE EvaluateSplit(e, prophet_m, xgb_m, ILocHead(df, test_days),
                       ILocTail(df, test_days), test_days)

\* ------------------------------------------------------------------ state
VARIABLES
    ens,        \* the EnsembleForecaster: status, stored weights, ctor arguments
    prophet,    \* ens.prophet, the seasonal sub-model's fitted state
    xgboost,    \* ens.xgboost, the autoregressive sub-model's fitted state
    last        \* the latest call on the instance: its arguments and outcome

vars == <<ens, prophet, xgboost, last>>

NoFrame == [cols |-> {}, rows |-> <<>>]

Call(op, df, n, err, val, steps) ==
    [op |-> op, df |-> df, n |-> n, err |-> err, val |-> val, steps |-> steps]

WeightArgs == (0 - 1)..MaxWeight

\* the instance exists and no call on it is in progress or unconsumed: the
\* program is single-threaded and synchronous, one call at a time
Idle == last.op = "none"

Live == ens.status = "live" /\ Idle

\* before EnsembleForecaster(...) is called
Init ==
    /\ ens = [status |-> "none", prophet_weight |-> NaN, xgb_weight |-> NaN, args |-> <<0, 0>>]
    /\ prophet = ProphetNew
    /\ xgboost = XGBNew
    /\ last = Call("none", NoFrame, 0, "none", <<>>, <<>>)

\* EnsembleForecaster(prophet_weight=pw, xgb_weight=xw)
Construct(pw, xw) ==
    /\ ens.status = "none"
    /\ Idle
    /\ \E w \in {NormalizeWeights(pw, xw)} :
           /\ ens' = [status |-> IF w.err = "none" THEN "live" ELSE "failed",
                      prophet_weight |-> w.pw, xgb_weight |-> w.xw, args |-> <<pw, xw>>]
           /\ last' = Call("__init__", NoFrame, 0, w.err, <<>>, <<>>)
    /\ prophet' = ProphetNew
    /\ xgboost' = XGBNew

\* ens.train(df)
Train(df) ==
    /\ Live
    /\ \E t \in {EnsembleTrainOp(prophet, xgboost, df)} :
           /\ prophet' = t.prophet
           /\ xgboost' = t.xgboost
           /\ last' = Call("train", df, 0, t.err, <<>>, <<>>)
    /\ UNCHANGED ens

\* ens.predict(df, days_ahead)
Predict(df, days_ahead) ==
    /\ Live
    /\ \E r \in {EnsemblePredictOp(ens, prophet, xgboost, df, days_ahead)} :
           last' = Call("predict", df, days_ahead, r.err, r.val, <<>>)
    /\ UNCHANGED <<ens, prophet, xgboost>>

\* ens.adaptive_predict(df, days_ahead)
AdaptivePredict(df, days_ahead) ==
    /\ Live
    /\ \E r \in {AdaptivePredictOp(prophet, xgboost, df, days_ahead)} :
           last' = Call("adaptive_predict", df, days_ahead, r.err, r.val, <<>>)
    /\ UNCHANGED <<ens, prophet, xgboost>>

\* ens.evaluate(df, test_days)
Evaluate(df, test_days) ==
    /\ Live
    /\ \E r \in {EvaluateOp(ens, prophet, xgboost, df, test_days)} :
           /\ prophet' = r.prophet
           /\ xgboost' = r.xgboost
           /\ last' = Call("evaluate", df, test_days, r.err, r.val, <<>>)
    /\ UNCHANGED ens

\* ens.prophet.train(df)
SeasonalTrain(df) ==
    /\ Live
    /\ \E t \in {ProphetTrain(prophet, df)} :
           /\ prophet' = t.model
           /\ last' = Call("prophet.train", df, 0, t.err, <<>>, <<>>)
    /\ UNCHANGED <<ens, xgboost>>

\* ens.prophet.predict(days_ahead) and
\* ens.prophet.predict(days_ahead, include_uncertainty=...)
SeasonalPredict(days_ahead, kwargs) ==
    /\ Live
    /\ \E r \in {ProphetPredict(prophet, days_ahead, kwargs)} :
           last' = Call("prophet.predict", NoFrame, days_ahead, r.err, r.val, kwargs)
    /\ UNCHANGED <<ens, prophet, xgboost>>

\* ens.xgboost.train(df)
AutoregressiveTrain(df) ==
    /\ Live
    /\ \E t \in {XGBTrain(xgboost, df)} :
           /\ xgboost' = t.model
           /\ last' = Call("xgboost.train", df, 0, t.err, <<>>, <<>>)
    /\ UNCHANGED <<ens, prophet>>

\* ens.xgboost.predict_future(df, days_ahead)
PredictFuture(df, days_ahead) ==
    /\ Live
    /\ \E r \in {predict_future(xgboost, df, days_ahead)} :
           last' = Call("predict_future", df, days_ahead, r.err, r.val, r.steps)
    /\ UNCHANGED <<ens, prophet, xgboost>>

\* ens.xgboost.prepare_features(df)
PrepareFeatures(df) ==
    /\ Live
    /\ last' = Call("prepare_features", df, 0, "none", prepare_features(df), <<>>)
    /\ UNCHANGED <<ens, prophet, xgboost>>

\* ens.xgboost.get_feature_importance()
GetFeatureImportance ==
    /\ Live
    /\ \E r \in {get_feature_importance(xgboost)} :
           last' = Call("get_feature_importance", NoFrame, 0, r.err, r.val, <<>>)
    /\ UNCHANGED <<ens, prophet, xgboost>>

\* the caller takes the outcome of the call and goes on
Return ==
    /\ ~Idle
    /\ last' = Call("none", NoFrame, 0, "none", <<>>, <<>>)
    /\ UNCHANGED <<ens, prophet, xgboost>>

Next ==
    \/ \E pw, xw \in WeightArgs : Construct(pw, xw)
    \/ \E df \in SeriesPool : Train(df)
    \/ \E df \in SeriesPool, n \in Horizons : Predict(df, n)
    \/ \E df \in SeriesPool, n \in Horizons : AdaptivePredict(df, n)
    \/ \E df \in SeriesPool, n \in Horizons : Evaluate(df, n)
    \/ \E df \in SeriesPool : SeasonalTrain(df)
    \/ \E n \in Horizons, kw \in {{}, EnsembleProphetKwargs, AppProphetKwargs} :
           SeasonalPredict(n, kw)
    \/ \E df \in SeriesPool : AutoregressiveTrain(df)
    \/ \E df \in SeriesPool, n \in Horizons : PredictFuture(df, n)
    \/ \E df \in SeriesPool : PrepareFeatures(df)
    \/ GetFeatureImportance
    \/ Return

Spec == Init /\ [][Next]_vars

\* ------------------------------------------- the adaptive weight on its own
\* largest horizon the weight expression is tabulated for
MaxWeightHorizon == 30

\* the weight line of adaptive_predict evaluated for position k of horizon h
WeightAt(h, k) ==
    /\ Idle
    /\ last' = Call("adaptive_xgb_weight", NoFrame, h, "none",
                    [xgb |-> AdaptiveXgbWeight(k, h),
                     prophet |-> AdaptiveProphetWeight(k, h)], k)
    /\ UNCHANGED <<ens, prophet, xgboost>>

NextWeight ==
    \/ \E h \in 1..MaxWeightHorizon : \E k \in 1..h : WeightAt(h, k)
    \/ Return

SpecWeight == Init /\ [][NextWeight]_vars

\* ------------------------------------------ the caller's frame on its own
\* The frame objects a call can reach: `caller` is the object the caller
\* passed, `own` a copy the method made for its callees (evaluate's
\* train_df), `fresh` the latest object a pandas call returned; `ref` names
\* the object the running method's local name df is bound to.
FrameMethods ==
    {"train", "predict", "adaptive_predict", "evaluate", "prophet.train",
     "xgboost.train", "predict_future", "prepare_features"}

\* df.sort_values("date", inplace=True): sorts the bound object itself
SortInPlace(st) ==
    [st EXCEPT !.heap[st.ref] = SortValuesByDate(st.heap[st.ref])]

\* df = df.sort_values("date").copy(): a new object, and df rebound to it
SortCopy(st) ==
    [heap |-> [st.heap EXCEPT !.fresh = SortValuesByDate(st.heap[st.ref])],
     ref |-> "fresh"]

\* one statement that touches a frame
Exec(stmt, st, n) ==
    CASE stmt = "enter_caller" -> [st EXCEPT !.ref = "caller"]
      [] stmt = "enter_own" -> [st EXCEPT !.ref = "own"]
      [] stmt = "iloc_copy" ->
            [st EXCEPT !.heap.own = ILocHead(st.heap.caller, n)]
      [] stmt = "rename" ->
            [st EXCEPT !.heap.fresh =
                [cols |-> {"ds", "y"}, rows |-> RenameForProphet(st.heap[st.ref])]]
      [] stmt = "sort_copy" -> SortCopy(st)
      [] stmt = "lag_columns" ->
            [st EXCEPT !.heap[st.ref] = WithLagFeatures(st.heap[st.ref])]
      [] stmt = "dropna" ->
            [heap |-> [st.heap EXCEPT !.fresh = DropNa(st.heap[st.ref], DropSubset)],
             ref |-> "fresh"]

\* prepare_features(df), entered with the frame `arg` of its caller
FeatureStatements(arg) == <<arg, "sort_copy", "lag_columns", "dropna">>

\* EnsembleForecaster.train(df) on a fresh instance: the seasonal train, and
\* the autoregressive one unless the first raised
TrainStatements(arg, df) ==
    <<arg, "rename">>
        \o (IF ProphetTrain(ProphetNew, df).err # "none" THEN <<>>
            ELSE FeatureStatements(arg))

\* the statements of a method that touch a frame, in execution order, on a
\* fresh instance; predict and adaptive_predict raise before they pass df on,
\* and so does the predict inside evaluate
FrameProgram(m, df, n) ==
    CASE m \in {"prepare_features", "xgboost.train"} -> FeatureStatements("enter_caller")
      [] m = "predict_future" -> <<"enter_caller", "sort_copy">>
      [] m = "prophet.train" -> <<"enter_caller", "rename">>
      [] m = "train" -> TrainStatements("enter_caller", df)
      [] m \in {"predict", "adaptive_predict"} -> <<>>
      [] m = "evaluate" ->
            IF Len(df.rows) < n + MinTrainRows THEN <<>>
            ELSE <<"iloc_copy">> \o TrainStatements("enter_own", ILocHead(df, n))

\* df with its rows in the opposite order
Reversed(df) ==
    [cols |-> df.cols,
     rows |-> [i \in 1..Len(df.rows) |-> df.rows[Len(df.rows) + 1 - i]]]

\* the series of the pool, and two of them unsorted
FramePool ==
    SeriesPool \cup {Reversed(MkSeries(n, 1, AllCovs)) : n \in {MaxShortLen, LongLen}}

\* a method is called with the caller's frame df
FrameCall(m, df, n) ==
    /\ Idle
    /\ last' = Call(m, df, n, "none",
                    [st |-> [heap |-> [caller |-> df, own |-> NoFrame, fresh |-> NoFrame],
                             ref |-> "caller"],
                     prog |-> FrameProgram(m, df, n)], 1)
    /\ UNCHANGED <<ens, prophet, xgboost>>

FrameRunning == last.op \in FrameMethods /\ last.steps <= Len(last.val.prog)

\* its next statement runs
FrameStep ==
    /\ FrameRunning
    /\ last' = [last EXCEPT !.val.st = Exec(last.val.prog[last.steps], @, last.n),
                            !.steps = @ + 1]
    /\ UNCHANGED <<ens, prophet, xgboost>>

\* it returns or raises
FrameReturn == last.op \in FrameMethods /\ ~FrameRunning /\ Return

NextFrame ==
    \/ \E m \in FrameMethods, df \in FramePool, n \in Horizons : FrameCall(m, df, n)
    \/ FrameStep
    \/ FrameReturn

SpecFrame == Init /\ [][NextFrame]_vars

\* ------------------------------------- the forecasting fold on its own
\* largest horizon the fold of predict_future is run for: past the weekly
\* window, so that the recent forecasts fill it
MaxFoldHorizon == 9

\* one ensemble, its autoregressive sub-model trained on a series of the
\* pool, and predict_future called on it for the longer horizons
NextFold ==
    \/ \E pw, xw \in {1} : Construct(pw, xw)
    \/ \E df \in SeriesPool : AutoregressiveTrain(df)
    \/ \E df \in SeriesPool, n \in 0..MaxFoldHorizon : PredictFuture(df, n)
    \/ Return

SpecFold == Init /\ [][NextFold]_vars

\* ------------------------------------------------------------------ claims
BothTrained == prophet.trained /\ xgboost.trained

\* the ensemble was built from weights of positive sum
PositiveSum == ens.args[1] + ens.args[2] > 0

\* the autoregressive forecast alone succeeds for the arguments of the call
XgbSideOk == predict_future(xgboost, last.df, last.n).err = "none"

\* a rational rounded to 4 decimals, times 10000
Round4(r) == (2 * 10000 * r[1] + r[2]) \div (2 * r[2])

\* C1: predict on a trained ensemble returns, for every date both sub-model
\* forecasts share, forecast = w_seasonal * forecast_seasonal +
\* w_autoregressive * forecast_autoregressive with both components
C1_PredictCombines ==
    (PositiveSum /\ last.op = "predict" /\ BothTrained /\ last.n >= 1 /\ XgbSideOk)
        => /\ last.err = "none"
           /\ Len(last.val) = last.n
           /\ \A k \in 1..Len(last.val) :
                last.val[k].forecast =
                    Weighted(ens.prophet_weight, last.val[k].forecast_prophet,
                             ens.xgb_weight, last.val[k].forecast_xgb)

\* the series of the call has the covariate columns the model was fitted on
SameFeatures ==
    FeatureCols(last.df.cols \cup SeqToSet(LagCols)) = xgboost.feature_names_in

LastDate(df) == df.rows[Len(df.rows)][DATE]

\* C2: predict_future(series, N) on a trained forecaster returns exactly N
\* rows, the k-th dated last historical date + k days
C2_FutureRows ==
    (PositiveSum /\ last.op = "predict_future" /\ xgboost.trained /\ SameFeatures)
        => /\ last.err = "none"
           /\ Len(last.val.rows) = last.n
           /\ \A k \in 1..Len(last.val.rows) :
                last.val.rows[k].date = LastDate(last.df) + k

\* C3: once a sub-model is Trained no later operation replaces its fitted
\* state
C3_TrainedOnce ==
    [][PositiveSum =>
           /\ prophet.trained => prophet' = prophet
           /\ xgboost.trained => xgboost' = xgboost]_vars

\* C4: the seasonal predict and the autoregressive predict_future raise on an
\* Untrained instance
C4_GatedOnTrained ==
    (/\ PositiveSum
     /\ \/ last.op = "predict_future" /\ ~xgboost.trained
        \/ last.op = "prophet.predict" /\ ~prophet.trained)
        => last.err # "none"

C6_WeightsNormalized ==
    (ens.status = "live" /\ ens.args[1] + ens.args[2] > 0)
        => /\ RAdd(ens.prophet_weight, ens.xgb_weight) = RInt(1)
           /\ RMul(ens.prophet_weight, RInt(ens.args[2]))
                  = RMul(ens.xgb_weight, RInt(ens.args[1]))

C6_Witness ==
    /\ ens.status = "live"
    /\ ens.args = <<2, 1>>
    /\ last.op = "evaluate"
    /\ BothTrained

\* C7: no ensemble exists whose constructor weights had a zero or negative sum
C7_NonPositiveRejected ==
    ens.status = "live" => ens.args[1] + ens.args[2] > 0

\* C8: adaptive_predict weighs the forecast at position k of horizon n with
\* max(0.3, 0.8 - (k / n) * 0.5) for the autoregressive part and the
\* complement for the seasonal part
C8_AdaptiveWeights ==
    (PositiveSum /\ last.op = "adaptive_predict" /\ BothTrained /\ last.n >= 1 /\ XgbSideOk)
        => /\ last.err = "none"
           /\ Len(last.val) = last.n
           /\ \A k \in 1..Len(last.val) :
                LET w == RMax(Rat(3, 10), RSub(Rat(8, 10), Rat(5 * k, 10 * last.n)))
                IN  /\ last.val[k].forecast =
                           Weighted(RSub(RInt(1), w), last.val[k].forecast_prophet,
                                    w, last.val[k].forecast_xgb)
                    /\ RLe(Rat(3, 10), w)

\* C9 as stated: for horizon 30 the weight at k = 1 is about 0.7917
C9_Stated ==
    (last.op = "adaptive_xgb_weight" /\ last.n = 30 /\ last.steps = 1)
        => Round4(last.val.xgb) = 7917

\* C9, amended: for horizon 30 the autoregressive weight at k = 1 is 47/60,
\* about 0.7833, and at k = 30 it is 0.3
C9_WeightsAt30 ==
    (last.op = "adaptive_xgb_weight" /\ last.n = 30)
        => /\ last.steps = 1 => last.val.xgb = Rat(47, 60) /\ Round4(last.val.xgb) = 7833
           /\ last.steps = 30 => last.val.xgb = Rat(3, 10)

C9_Witness ==
    last.op = "adaptive_xgb_weight" /\ last.n = 30 /\ last.steps \in {1, 30}

\* C10: for a series of n >= 8 rows prepare_features returns a feature matrix
\* and a target vector of n - 7 rows each, the targets of rows 8..n, and no
\* row lacks lag_1, lag_7, rolling_mean_7 or rolling_std_7
C10_FeatureRows ==
    (last.op = "prepare_features" /\ Len(last.df.rows) >= Window + 1)
        => /\ Len(last.val.X.rows) = Len(last.df.rows) - Window
           /\ Len(last.val.y) = Len(last.df.rows) - Window
           /\ \A i \in 1..Len(last.val.y) :
                  last.val.y[i] = last.df.rows[i + Window][TARGET]
           /\ \A i \in 1..Len(last.val.X.rows) : \A c \in SeqToSet(LagCols) :
                  last.val.X.rows[i][c] # NaN

C10_Witness ==
    /\ last.op = "prepare_features"
    /\ Len(last.df.rows) = Window + 1
    /\ Len(last.val.X.rows) = 1

\* C11: prepare_features on a series of fewer than 8 observations fails
\* instead of returning a feature matrix
C11_InsufficientRejected ==
    (PositiveSum /\ last.op = "prepare_features" /\ Len(last.df.rows) < Window + 1)
        => last.err # "none"

\* the series of the call is shorter than test_days + 30
ShortForEvaluate(c) == Len(c.df.rows) < c.n + MinTrainRows

C13_EvaluateThreeRows ==
    (PositiveSum /\ last.op = "evaluate" /\ last.n >= 1 /\ ~ShortForEvaluate(last))
        => /\ last.err = "none"
           /\ ~last.val.is_none
           /\ Len(last.val.rows) = 3
           /\ \A k \in 1..3 :
                  /\ last.val.rows[k].Model = <<"Ensemble", "Prophet", "XGBoost">>[k]
                  /\ last.val.rows[k].n = last.n

\* C14: the seasonal predict(horizon_days) on a Trained instance returns
\* exactly horizon_days points, the k-th dated last training date + k days
C14_SeasonalHorizonRows ==
    (/\ PositiveSum /\ last.op = "prophet.predict" /\ prophet.trained
     /\ last.steps = {} /\ last.n >= 1)
        => /\ last.err = "none"
           /\ Len(last.val.rows) = last.n
           /\ \A k \in 1..Len(last.val.rows) :
                  last.val.rows[k].date
                      = prophet.history[Len(prophet.history)].ds + k

\* C15: the seasonal predict accepts include_uncertainty and returns the
\* forecast, its points carrying lower_bound and upper_bound exactly when the
\* flag is true
C15_UncertaintyFlag ==
    (PositiveSum /\ last.op = "prophet.predict" /\ prophet.trained /\ last.steps # {})
        => /\ last.err = "none"
           /\ \A k \in 1..Len(last.val.rows) :
                  (<<"include_uncertainty", TRUE>> \in last.steps)
                      <=> ({"lower_bound", "upper_bound"}
                              \subseteq DOMAIN last.val.rows[k])

FrameDates(r) == {r.val.rows[k].date : k \in 1..Len(r.val.rows)}

\* both sub-models forecast for the arguments of the call, on disjoint dates
NoSharedDate ==
    /\ BothTrained
    /\ last.n >= 1
    /\ XgbSideOk
    /\ FrameDates(ProphetPredict(prophet, last.n, {}))
           \cap FrameDates(predict_future(xgboost, last.df, last.n)) = {}

\* C16: when the two sub-model forecasts share no date, predict and
\* adaptive_predict return an empty combined series and do not raise
C16_EmptyJoin ==
    (PositiveSum /\ last.op \in {"predict", "adaptive_predict"} /\ NoSharedDate)
        => last.err = "none" /\ last.val = <<>>

\* a sub-model call of predict / adaptive_predict fails for these arguments
ForecastFails(prophet_m, xgb_m, df, n) ==
    \/ ProphetPredict(prophet_m, n, EnsembleProphetKwargs).err # "none"
    \/ predict_future(xgb_m, df, n).err # "none"

\* C17: a failure of either sub-model during train, predict, adaptive_predict
\* or evaluate is raised to the caller, and no combined forecast or report
\* is returned
C17_FailureSurfaced ==
    [][/\ (/\ last'.op \in {"predict", "adaptive_predict"}
           /\ ForecastFails(prophet, xgboost, last'.df, last'.n))
          => last'.err # "none" /\ last'.val = <<>>
       /\ (/\ last'.op = "train"
           /\ \/ ProphetTrain(prophet, last'.df).err # "none"
              \/ XGBTrain(xgboost, last'.df).err # "none")
          => last'.err # "none"
       /\ (/\ last'.op = "evaluate"
           /\ ~ShortForEvaluate(last')
           /\ \/ EnsembleTrainOp(prophet, xgboost, ILocHead(last'.df, last'.n)).err # "none"
              \/ ForecastFails(prophet', xgboost', ILocHead(last'.df, last'.n), last'.n))
          => last'.err # "none" /\ last'.val = <<>>]_vars

C17_Witness ==
    /\ last.op = "predict"
    /\ BothTrained
    /\ last.n >= 1
    /\ XgbSideOk
    /\ last.err = "TypeError"

\* the two sub-model forecasts for the arguments of the call, joined
JoinedPair ==
    MergeOnDate(ProphetPredict(prophet, last.n, {}).val,
                predict_future(xgboost, last.df, last.n).val)

\* the two sub-model forecasts are the same constant series
ConstantPair ==
    /\ BothTrained
    /\ last.n >= 1
    /\ XgbSideOk
    /\ JoinedPair.err = "none"
    /\ Len(JoinedPair.val) = last.n
    /\ \E V \in 0..Scale : \A k \in 1..Len(JoinedPair.val) :
           /\ JoinedPair.val[k].forecast_prophet = V
           /\ JoinedPair.val[k].forecast_xgb = V

\* C18: predict with weights (0.5, 0.5) over two identical constant
\* sub-model forecasts V returns V at every date
C18_IdenticalConstant ==
    (/\ PositiveSum
     /\ last.op = "predict"
     /\ ens.prophet_weight = Rat(1, 2) /\ ens.xgb_weight = Rat(1, 2)
     /\ ConstantPair)
        => /\ last.err = "none"
           /\ Len(last.val) = last.n
           /\ \A k \in 1..Len(last.val) :
                  last.val[k].forecast = RInt(last.val[k].forecast_xgb)

\* C19: train, predict_future, predict, adaptive_predict and evaluate leave
\* the frame the caller passed as it was: same rows, same order, same columns
C19_SeriesUnchanged ==
    last.op \in FrameMethods => last.val.st.heap.caller = last.df

C19_Witness ==
    /\ last.op \in {"train", "evaluate", "predict_future"}
    /\ ~FrameRunning
    /\ last.val.prog # <<>>
    /\ last.val.st.ref = "fresh"
    /\ last.val.st.heap.fresh # last.df
    /\ SortValuesByDate(last.df) # last.df

\* the series of the call is the one the seasonal model was fitted on
TrainedOnSameSeries ==
    /\ BothTrained
    /\ prophet.history = RenameForProphet(last.df)
    /\ SameFeatures

\* C21: predict and adaptive_predict, called with the series the ensemble was
\* trained on, return exactly horizon_days rows dated last historical date
\* + 1 .. + horizon_days
C21_NormalUseKeepsEveryDate ==
    (/\ PositiveSum
     /\ last.op \in {"predict", "adaptive_predict"}
     /\ TrainedOnSameSeries
     /\ last.n >= 1
     /\ XgbSideOk)
        => /\ last.err = "none"
           /\ Len(last.val) = last.n
           /\ \A k \in 1..Len(last.val) : last.val[k].date = LastDate(last.df) + k

\* the historical targets of the series of the call, oldest first
HistTargets == Column(SortValuesByDate(last.df), TARGET)

\* the forecasts made before step i (1-based) of the call
MadeBefore(i) == [j \in 1..(i - 1) |-> last.val.rows[j].forecast]

\* predict_future returned its forecasts
FoldDone == last.op = "predict_future" /\ last.err = "none"

\* C22: in predict_future the lag_1 feature of step 1 is the last historical
\* target and that of every later step is the forecast of the step before
C22_SequentialFold ==
    FoldDone
        => /\ Len(last.steps) = last.n
           /\ Len(last.val.rows) = last.n
           /\ \A i \in 1..Len(last.steps) :
                  last.steps[i].vals["lag_1"] =
                      IF i = 1 THEN RInt(HistTargets[Len(HistTargets)])
                      ELSE RInt(last.val.rows[i - 1].forecast)

C22_Witness ==
    /\ FoldDone
    /\ last.n >= 3
    /\ \E i \in 2..last.n :
           /\ last.val.rows[i - 1].forecast # HistTargets[Len(HistTargets)]
           /\ last.steps[i].vals["lag_1"] # last.steps[1].vals["lag_1"]

\* the trailing pool of step i: the forecasts made so far, topped up with
\* the trailing historical targets, seven values in all
Pool7(i) == LastK(HistTargets \o MadeBefore(i), Window)

\* C23: at every step of predict_future lag_7 and rolling_mean_7 are both
\* the mean of the trailing pool of 7 values
C23_TrailingPool ==
    FoldDone
        => \A i \in 1..Len(last.steps) :
               /\ last.steps[i].vals["lag_7"] = Mean(Pool7(i))
               /\ last.steps[i].vals["rolling_mean_7"] = Mean(Pool7(i))

\* C24: at every step of predict_future rolling_std_7 is the standard
\* deviation (of either convention) of the trailing pool, and with fewer than
\* 2 forecasts that of the trailing historical targets
C24_TrailingStd ==
    FoldDone
        => \A i \in 1..Len(last.steps) :
               IF i - 1 < 2
               THEN last.steps[i].vals["rolling_std_7"]
                        = Std(LastK(HistTargets, Window), 1)
               ELSE last.steps[i].vals["rolling_std_7"]
                        \in {Std(Pool7(i), 0), Std(Pool7(i), 1)}

\* the historical rows in the calendar month of step i's target date
MonthRows(i) == SameMonth(last.df, Month(LastDate(last.df) + i))

\* C25: every step of predict_future produces a forecast, with each
\* covariate the median over the historical rows of the target date's month,
\* or the last row's raw value when that month has no row
C25_CovariateMedians ==
    (last.op = "predict_future" /\ xgboost.trained /\ SameFeatures)
        => /\ last.err = "none"
           /\ Len(last.steps) = last.n
           /\ \A i \in 1..Len(last.steps) : \A c \in AllCovs \cap last.df.cols :
                  last.steps[i].vals[c] =
                      IF MonthRows(i) # <<>>
                      THEN Median([j \in 1..Len(MonthRows(i)) |-> MonthRows(i)[j][c]])
                      ELSE RInt(last.df.rows[Len(last.df.rows)][c])

\* C26: for a series lacking covariates train succeeds, and so does every
\* step of predict_future, with exactly the feature names used in training
C26_AbsentCovariates ==
    /\ (last.op = "xgboost.train" /\ Len(last.df.rows) >= Window + 2)
           => last.err = "none"
    /\ (last.op = "predict_future" /\ xgboost.trained /\ SameFeatures)
           => /\ last.err = "none"
              /\ Len(last.steps) = last.n
              /\ \A i \in 1..Len(last.steps) :
                     last.steps[i].cols = xgboost.feature_names_in

\* the number of rows train_test_split leaves for fitting out of n
TrainCount(n) == n - (n + 4) \div 5

\* the autoregressive model m is fitted on the 80% part of the feature rows
\* fe: that many rows, each one a feature row with its target
FittedOnRows(m, fe) ==
    /\ m.trained
    /\ Len(m.X_fit) = TrainCount(Len(fe.y))
    /\ Len(m.y_fit) = TrainCount(Len(fe.y))
    /\ \A j \in 1..Len(m.y_fit) :
           \E i \in 1..Len(fe.y) :
               m.X_fit[j] = fe.X.rows[i] /\ m.y_fit[j] = fe.y[i]

FittedOnSplitOf(m, df) == FittedOnRows(m, prepare_features(df))

\* C27: the autoregressive train fits the model once, on the 80% split of
\* the feature matrix only, so the Trained model holds no validation row
C27_FitOnTrainSplitOnly ==
    (last.op \in {"xgboost.train", "train"} /\ last.err = "none")
        => FittedOnSplitOf(xgboost, last.df)

C27_Witness ==
    /\ last.op = "xgboost.train"
    /\ last.err = "none"
    /\ Len(xgboost.y_fit) >= 2
    /\ Len(xgboost.y_fit) < Len(last.df.rows) - Window

\* evaluate got past its training step: it returned a report or failed in
\* the predict that follows
PastTraining(c) == ~ShortForEvaluate(c) /\ c.err \in {"none", "TypeError"}

\* C28: evaluate trains the ensemble's own sub-models on the series without
\* its last test_days rows, and leaves them as they were when it returns
\* early for insufficient data
C28_EvaluateTrainsOwn ==
    [][last'.op = "evaluate"
          => /\ ShortForEvaluate(last')
                 => prophet' = prophet /\ xgboost' = xgboost
             /\ PastTraining(last')
                 => /\ prophet'.trained
                    /\ prophet'.history
                           = RenameForProphet(ILocHead(last'.df, last'.n))
                    /\ FittedOnSplitOf(xgboost', ILocHead(last'.df, last'.n))]_vars

C28_Witness ==
    /\ last.op = "evaluate"
    /\ last.n >= 1
    /\ PastTraining(last)
    /\ BothTrained
    /\ prophet.history = RenameForProphet(ILocHead(last.df, last.n))

\* C29: train trains the seasonal model first and the autoregressive one
\* second, without rollback: when the first raises the second is not touched,
\* when the second raises the first stays Trained on the series
C29_TrainOrderNoRollback ==
    [][last'.op = "train"
          => /\ ProphetTrain(prophet, last'.df).err # "none"
                 => /\ last'.err = ProphetTrain(prophet, last'.df).err
                    /\ prophet' = prophet
                    /\ xgboost' = xgboost
             /\ (/\ ProphetTrain(prophet, last'.df).err = "none"
                 /\ XGBTrain(xgboost, last'.df).err # "none")
                 => /\ last'.err = XGBTrain(xgboost, last'.df).err
                    /\ prophet'.trained
                    /\ prophet'.history = RenameForProphet(last'.df)
                    /\ xgboost' = xgboost]_vars

C29_Witness ==
    /\ last.op = "train"
    /\ last.err = "ValueError"
    /\ prophet.trained
    /\ prophet.history = RenameForProphet(last.df)
    /\ ~xgboost.trained

====
